---------------------------- MODULE Spec2Model ----------------------------
(***************************************************************************)
(* Model of scripts/tei_parser.py (class TEIParser) and of the way          *)
(* scripts/build.py calls it.                                               *)
(*                                                                          *)
(* Representation.                                                          *)
(*  - A Python str is a sequence of one-character strings, so that          *)
(*    replace, strip, split, slicing and comparison are computed.           *)
(*  - An lxml element is [tag, attrs, text, kids, tail]; attrs is a set of  *)
(*    <<name, value>> pairs, kids the sequence of child elements; a text or *)
(*    tail of <<>> is lxml's None (lxml never yields '' from a parsed file).*)
(*    All elements are in the TEI namespace; xml:id and xml:lang are the    *)
(*    attributes "xml:id" and "xml:lang".                                   *)
(*  - Python's None is None (<<>>) and a present Optional value v is        *)
(*    Some(v) (<<v>>).                                                      *)
(*  - Comments and processing instructions are not part of the documents,   *)
(*    and the space is the only whitespace character.                       *)
(*  - A public method call is one action; the value it returns is kept in   *)
(*    the variable named after it, None before the first call.              *)
(***************************************************************************)
EXTENDS Integers, Sequences, FiniteSets, TLC

VARIABLES
    treatise_xml,     \* the document stored at self.treatise_path
    lexicon_xml,      \* the document stored at self.lexicon_path
    _treatise_tree,   \* self._treatise_tree
    _lexicon_tree,    \* self._lexicon_tree
    parses,           \* history: number of etree.parse calls per document
    ncalls,           \* history: number of calls of public methods so far
    witnesses,        \* value returned by the last get_witnesses call
    cts_urn,          \* value returned by the last get_cts_urn call
    sections,         \* value returned by the last get_sections call
    metadata,         \* value returned by the last get_metadata call
    entries           \* value returned by the last get_lexicon_entries call

vars == <<treatise_xml, lexicon_xml, _treatise_tree, _lexicon_tree, parses, ncalls,
          witnesses, cts_urn, sections, metadata, entries>>

None == <<>>
Some(x) == <<x>>

-----------------------------------------------------------------------------
(* Python str operations used by the parser *)

\* s.replace(old, ''): the occurrences of old removed, left to right
RECURSIVE remove(_, _)
remove(s, old) ==
    IF Len(s) < Len(old) THEN s
    ELSE IF SubSeq(s, 1, Len(old)) = old
         THEN remove(SubSeq(s, Len(old) + 1, Len(s)), old)
         ELSE <<Head(s)>> \o remove(Tail(s), old)

\* s.replace('#', '')
replace_hash(s) == remove(s, <<"#">>)

IsSpace(c) == c = " "

RECURSIVE lstrip(_)
lstrip(s) == IF s # <<>> /\ IsSpace(Head(s)) THEN lstrip(Tail(s)) ELSE s

RECURSIVE rstrip(_)
rstrip(s) ==
    IF s # <<>> /\ IsSpace(s[Len(s)]) THEN rstrip(SubSeq(s, 1, Len(s) - 1)) ELSE s

\* s.strip()
strip(s) == rstrip(lstrip(s))

\* s[:k]
Prefix(s, k) == SubSeq(s, 1, IF Len(s) < k THEN Len(s) ELSE k)

\* positions at which sub occurs in s
Occurrences(sub, s) ==
    {i \in 1..(Len(s) - Len(sub) + 1) : SubSeq(s, i, i + Len(sub) - 1) = sub}

\* sub in s
Contains(sub, s) == Occurrences(sub, s) # {}

\* s.split(sub)[-1]
split_last(s, sub) ==
    IF Occurrences(sub, s) = {} THEN s
    ELSE LET i == CHOOSE k \in Occurrences(sub, s) :
                      \A m \in Occurrences(sub, s) : m <= k
         IN  SubSeq(s, i + Len(sub), Len(s))

Digits == <<"0", "1", "2", "3", "4", "5", "6", "7", "8", "9">>

\* f'{k}' for an int k >= 0
RECURSIVE Str(_)
Str(k) == IF k < 10 THEN <<Digits[k + 1]>>
          ELSE Str(k \div 10) \o <<Digits[(k % 10) + 1]>>

\* ''.join(parts)
RECURSIVE Join(_)
Join(parts) == IF parts = <<>> THEN <<>> ELSE Head(parts) \o Join(Tail(parts))

\* [f(x) for x in s]
Map(f(_), s) == [i \in 1..Len(s) |-> f(s[i])]

-----------------------------------------------------------------------------
(* lxml element API used by the parser *)

E(tag, attrs, text, kids, tail) ==
    [tag |-> tag, attrs |-> attrs, text |-> text, kids |-> kids, tail |-> tail]

HasAttr(elem, name) == \E a \in elem.attrs : a[1] = name

\* elem.get(name, default)
Get(elem, name, default) ==
    IF HasAttr(elem, name)
    THEN (CHOOSE a \in elem.attrs : a[1] = name)[2]
    ELSE default

\* ''.join(elem.itertext()): the text of elem and of its descendants, tails of
\* the descendants included, in document order
RECURSIVE itertext(_), itertext_kids(_)
itertext(elem) == elem.text \o itertext_kids(elem.kids)
itertext_kids(kids) ==
    IF kids = <<>> THEN <<>>
    ELSE itertext(Head(kids)) \o Head(kids).tail \o itertext_kids(Tail(kids))

\* elem.findall('tei:<tag>'): the direct children with that tag, in order
findall(elem, tag) == SelectSeq(elem.kids, LAMBDA k : k.tag = tag)

\* elem.find('tei:<tag>'): the first such child, as an Optional
find(elem, tag) ==
    IF findall(elem, tag) = <<>> THEN None ELSE Some(Head(findall(elem, tag)))

\* the descendants of elem in document order (the axis of './/' and findall('.//'))
RECURSIVE Desc(_), DescSeq(_)
Desc(elem) == DescSeq(elem.kids)
DescSeq(kids) ==
    IF kids = <<>> THEN <<>>
    ELSE <<Head(kids)>> \o Desc(Head(kids)) \o DescSeq(Tail(kids))

\* elem and its descendants (the axis of '//' from the document root)
DescOrSelf(elem) == <<elem>> \o Desc(elem)

\* the text nodes that are children of elem ('text()' after a step): its
\* leading text and the tails of its children, in document order
TextNodes(elem) ==
    (IF elem.text # <<>> THEN <<elem.text>> ELSE <<>>)
    \o Map(LAMBDA k : k.tail, SelectSeq(elem.kids, LAMBDA k : k.tail # <<>>))

\* nodes/tei:<tag>: the children with that tag of each node, in order
Step(nodes, tag) == Join(Map(LAMBDA e : findall(e, tag), nodes))

\* nodes/text()
StepText(nodes) == Join(Map(TextNodes, nodes))

\* nodes/@<name>: the values of that attribute, of the nodes that carry it
StepAttr(nodes, name) ==
    Map(LAMBDA e : Get(e, name, None), SelectSeq(nodes, LAMBDA e : HasAttr(e, name)))

\* the elements of nodes with the tag, and with attribute name equal to value
WithTag(nodes, tag) == SelectSeq(nodes, LAMBDA e : e.tag = tag)
WithAttr(nodes, name, value) ==
    SelectSeq(nodes, LAMBDA e : HasAttr(e, name) /\ Get(e, name, None) = value)

\* x[0] if x else default
FirstOr(x, default) == IF x # <<>> THEN x[1] ELSE default

-----------------------------------------------------------------------------
(* Data classes *)

\* ContentNode(type=...): every other field defaults to None
ContentNode(type) ==
    [type |-> type, value |-> None, id |-> None, index |-> None, lem |-> None,
     rdg_s |-> None, note |-> None, target |-> None, text |-> None,
     ed |-> None, n |-> None, ka |-> None, grc |-> None]

TextNode(value) == [ContentNode("text") EXCEPT !.value = Some(value)]

\* AppEntry(id, index, lem, lem_wit, readings); note defaults to None
AppEntry(id, index, lem, lem_wit, readings) ==
    [id |-> id, index |-> index, lem |-> lem, lem_wit |-> lem_wit,
     readings |-> readings, note |-> None]

-----------------------------------------------------------------------------
(* TEIParser._parse_section_content                                         *)
(* The closure state (content, apparatus, app_counter) is the record acc.   *)

\* content.append(node)
Emit(acc, node) == [acc EXCEPT !.content = Append(@, node)]

\* the record appended to readings for one rdg child
Reading(rdg) ==
    LET wit       == replace_hash(Get(rdg, "wit", <<>>))
        rdg_text  == strip(itertext(rdg))
        note_elem == find(rdg, "note")
        note      == IF note_elem # None /\ note_elem[1].text # <<>>
                     THEN Some(note_elem[1].text) ELSE None
    IN  [wit  |-> wit,
         text |-> IF note = None \/ note[1] = <<>> THEN rdg_text ELSE <<>>,
         note |-> note]

\* mutant: the wit attribute is compared before its '#' is removed
RdgSRawWit(rdgs) ==
    LET hits == SelectSeq(rdgs, LAMBDA r :
                    Get(r, "wit", <<>>) = <<"S">> /\ strip(itertext(r)) # <<>>)
    IN  IF hits = <<>> THEN None ELSE Some(strip(itertext(hits[Len(hits)])))

\* rdg_s_text after the loop over the rdg children: the stripped text of the
\* last reading whose wit is 'S' and whose stripped text is not empty
RdgS(rdgs) ==
    LET hits == SelectSeq(rdgs, LAMBDA r :
                    replace_hash(Get(r, "wit", <<>>)) = <<"S">>
                    /\ strip(itertext(r)) # <<>>)
    IN  IF hits = <<>> THEN None ELSE Some(strip(itertext(hits[Len(hits)])))

\* the branch tag == 'app'
ProcessApp(acc, elem) ==
    LET counter  == acc.app_counter + 1
        app_id   == Get(elem, "xml:id", <<"a", "p", "p", ".">> \o Str(counter))
        lem_elem == find(elem, "lem")
        lem_text == IF lem_elem # None THEN itertext(lem_elem[1]) ELSE <<>>
        lem_wit  == IF lem_elem # None
                    THEN Some(replace_hash(Get(lem_elem[1], "wit", <<>>)))
                    ELSE None
        rdgs     == findall(elem, "rdg")
        readings == Map(Reading, rdgs)
        node     == [ContentNode("app") EXCEPT
                        !.id = Some(app_id),
                        !.index = Some(counter),
                        !.lem = Some(lem_text),
                        !.rdg_s = RdgS(rdgs),
                        !.note = IF readings # <<>> THEN readings[1].note ELSE None]
    IN  [content     |-> Append(acc.content, node),
         apparatus   |-> Append(acc.apparatus,
                                AppEntry(app_id, counter, lem_text, lem_wit, readings)),
         app_counter |-> counter]

\* the branch tag == 'term'
TermNode(elem) ==
    [ContentNode("term") EXCEPT
        !.target = Some(replace_hash(Get(elem, "target", <<>>))),
        !.text = Some(itertext(elem))]

\* mutant: ed keeps its '#'
FolioNodeRawEd(elem) ==
    [ContentNode("folio") EXCEPT
        !.ed = Some(Get(elem, "ed", <<>>)),
        !.n = Some(Get(elem, "n", <<>>))]

\* the branches tag == 'pb', milestone with unit == 'folio', and tag == 'cb'
FolioNode(elem) ==
    [ContentNode("folio") EXCEPT
        !.ed = Some(replace_hash(Get(elem, "ed", <<>>))),
        !.n = Some(Get(elem, "n", <<>>))]

\* the branch foreign with xml:lang == 'grc'
GreekNode(elem) == [ContentNode("greek") EXCEPT !.text = Some(itertext(elem))]

\* the lookahead of the branch tag == 'mentioned'; sibs[i] is the element and
\* sibs[i + 1], when there is one, is elem.getnext()
Lookahead(sibs, i) ==
    IF i < Len(sibs) /\ sibs[i + 1].tag = "gloss"
    THEN LET foreign == find(sibs[i + 1], "foreign")
         IN  IF foreign # None THEN Some(itertext(foreign[1])) ELSE None
    ELSE None

\* the branch tag == 'mentioned'
MentionedNode(sibs, i) ==
    [ContentNode("mentioned") EXCEPT
        !.ka = Some(itertext(sibs[i])),
        !.grc = Lookahead(sibs, i)]

\* the inline elements whose branch keeps only their text
InlineTags == {"persName", "q"}

\* mutant: the unit attribute of a milestone is not looked at
IsFolioMilestoneAnyUnit(elem) == elem.tag = "milestone"

IsFolioMilestone(elem) ==
    elem.tag = "milestone" /\ Get(elem, "unit", None) = <<"f", "o", "l", "i", "o">>

IsGreek(elem) ==
    elem.tag = "foreign" /\ Get(elem, "xml:lang", None) = <<"g", "r", "c">>

\* process_element(elem, tail_text) for elem = sibs[i]; process_children is the
\* loop "for child in elem" of its last branch, from child j on
RECURSIVE process_element(_, _, _, _), process_children(_, _, _)
process_element(acc, sibs, i, tail_text) ==
    LET elem == sibs[i]
        tag  == elem.tag
        done ==
            IF tag = "app" THEN ProcessApp(acc, elem)
            ELSE IF tag = "term" THEN Emit(acc, TermNode(elem))
            ELSE IF tag = "pb" THEN Emit(acc, FolioNode(elem))
            ELSE IF IsFolioMilestone(elem) THEN Emit(acc, FolioNode(elem))
            ELSE IF tag = "cb" THEN Emit(acc, FolioNode(elem))
            ELSE IF IsGreek(elem) THEN Emit(acc, GreekNode(elem))
            ELSE IF tag = "mentioned" THEN Emit(acc, MentionedNode(sibs, i))
            ELSE IF tag = "gloss" THEN acc
            ELSE IF tag \in InlineTags THEN Emit(acc, TextNode(itertext(elem)))
            ELSE process_children(
                     IF elem.text # <<>> THEN Emit(acc, TextNode(elem.text)) ELSE acc,
                     elem.kids, 1)
    IN  IF tail_text # None /\ tail_text[1] # <<>>
        THEN Emit(done, TextNode(tail_text[1]))
        ELSE done
process_children(acc, kids, j) ==
    IF j > Len(kids) THEN acc
    ELSE LET a1 == process_element(acc, kids, j, None)
             a2 == IF kids[j].tail # <<>> THEN Emit(a1, TextNode(kids[j].tail)) ELSE a1
         IN  process_children(a2, kids, j + 1)

\* the loop over div_elem.findall('.//tei:p'), from paragraph k on
RECURSIVE process_paragraphs(_, _, _)
process_paragraphs(acc, ps, k) ==
    IF k > Len(ps) THEN acc
    ELSE LET p  == ps[k]
             a1 == IF p.text # <<>> THEN Emit(acc, TextNode(p.text)) ELSE acc
         IN  process_paragraphs(process_children(a1, p.kids, 1), ps, k + 1)

\* _parse_section_content(div_elem, app_counter): the record
\* (content, apparatus, app_counter) it returns
_parse_section_content(div_elem, app_counter) ==
    process_paragraphs(
        [content |-> <<>>, apparatus |-> <<>>, app_counter |-> app_counter],
        SelectSeq(Desc(div_elem), LAMBDA e : e.tag = "p"), 1)

-----------------------------------------------------------------------------
(* TEIParser.get_witnesses, get_cts_urn, get_metadata *)

Witness(id, settlement, repository, locus) ==
    [id |-> id, settlement |-> settlement, repository |-> repository, locus |-> locus]

get_witnesses(tree) ==
    Map(LAMBDA wit :
            Witness(IF HasAttr(wit, "xml:id") THEN Some(Get(wit, "xml:id", None)) ELSE None,
                    FirstOr(StepText(WithTag(Desc(wit), "settlement")), <<>>),
                    FirstOr(StepText(WithTag(Desc(wit), "repository")), <<>>),
                    FirstOr(StepText(WithTag(Desc(wit), "locus")), <<>>)),
        WithTag(DescOrSelf(tree), "witness"))

\* 'urn:cts:georgian:shanidze.arthron.ed2025'
DefaultUrn ==
    <<"u", "r", "n", ":", "c", "t", "s", ":", "g", "e", "o", "r", "g", "i", "a", "n", ":",
      "s", "h", "a", "n", "i", "d", "z", "e", ".", "a", "r", "t", "h", "r", "o", "n", ".",
      "e", "d", "2", "0", "2", "5">>

get_cts_urn(tree) ==
    FirstOr(StepText(WithAttr(WithTag(DescOrSelf(tree), "idno"), "type",
                              <<"c", "t", "s", "-", "u", "r", "n">>)),
            DefaultUrn)

\* 'აკაკი შანიძე'
DefaultEditor ==
    <<"ა", "კ", "ა", "კ", "ი", " ", "შ", "ა", "ნ", "ი", "ძ", "ე">>

get_metadata(tree) ==
    LET editor == StepText(Step(WithAttr(WithTag(DescOrSelf(tree), "editor"), "role",
                                         <<"s", "c", "h", "o", "l", "a", "r", "l", "y">>),
                                "persName"))
    IN  [editor            |-> FirstOr(editor, DefaultEditor),
         publication_place |-> "თბილისი",
         publication_year  |-> "1990",
         source_title      |-> "ძველი ქართული ენის კათედრის შრომები, 32",
         cts_urn           |-> get_cts_urn(tree),
         github_url        |-> "https://github.com"]

-----------------------------------------------------------------------------
(* TEIParser.get_sections *)

\* the dict appended to folios for a pb or milestone child
Folio(elem) == [ed |-> replace_hash(Get(elem, "ed", <<>>)), n |-> Get(elem, "n", <<>>)]

\* the two loops filling folios: the pb children, then the milestone children
\* with unit="folio"
SectionFolios(div) ==
    Map(Folio, findall(div, "pb"))
    \o Map(Folio, WithAttr(findall(div, "milestone"), "unit", <<"f", "o", "l", "i", "o">>))

\* characters of text_content kept before the strip
IncipitLen == 50

\* the incipit computed from a section's content
Incipit(content) ==
    LET text_content ==
            Join(Map(LAMBDA node : node.value[1],
                     SelectSeq(content, LAMBDA node :
                         node.type = "text" /\ node.value # None /\ node.value[1] # <<>>)))
    IN  IF text_content # <<>> THEN strip(Prefix(text_content, IncipitLen)) ELSE <<>>

\* mutant: the counter lives on the instance and is not set back to zero
StartCounterKept ==
    IF sections = None THEN 0
    ELSE Len(Join(Map(LAMBDA sec : sec.apparatus, sections[1])))

\* value of app_counter when get_sections starts its loop
StartCounter == 0

\* mutant: the counter the section returns is dropped
UpdatedCounterDropped(parsed, app_counter) == app_counter

\* app_counter after "content, apparatus, app_counter = ..." for one section
UpdatedCounter(parsed, app_counter) == parsed.app_counter

\* the loop over the section divs, from div k on, with the counter threaded
RECURSIVE SectionLoop(_, _, _, _)
SectionLoop(divs, k, app_counter, base_urn) ==
    IF k > Len(divs) THEN <<>>
    ELSE LET div    == divs[k]
             n      == Get(div, "n", <<>>)
             xml_id == Get(div, "xml:id", <<"s", "e", "c", ".">> \o n)
             parsed == _parse_section_content(div, app_counter)
         IN  <<[n         |-> n,
                xml_id    |-> xml_id,
                urn       |-> base_urn \o <<":">> \o n,
                incipit   |-> Incipit(parsed.content),
                content   |-> parsed.content,
                folios    |-> SectionFolios(div),
                apparatus |-> parsed.apparatus]>>
             \o SectionLoop(divs, k + 1, UpdatedCounter(parsed, app_counter), base_urn)

\* tree.xpath('//tei:body/tei:div[@type="section"]')
SectionDivs(tree) ==
    WithAttr(Step(WithTag(DescOrSelf(tree), "body"), "div"), "type",
             <<"s", "e", "c", "t", "i", "o", "n">>)

get_sections(tree) == SectionLoop(SectionDivs(tree), 1, StartCounter, get_cts_urn(tree))

-----------------------------------------------------------------------------
(* TEIParser.get_lexicon_entries *)

\* the characters of the model in code point order; Ord(c) orders c as
\* Python's str comparison does
Alphabet ==
    <<" ", "#", ".", "0", "1", "2", "3", "4", "5", "6", "7", "8", "9", ":",
      "A", "B", "S", "a", "b", "c", "d", "e", "f", "g", "h", "i", "j", "k", "l",
      "m", "n", "o", "p", "q", "r", "s", "t", "u", "v", "w", "x", "y", "z">>

Ord(c) == CHOOSE i \in 1..Len(Alphabet) : Alphabet[i] = c

\* a < b for two str
RECURSIVE StrLess(_, _)
StrLess(a, b) ==
    IF b = <<>> THEN FALSE
    ELSE IF a = <<>> THEN TRUE
    ELSE IF Head(a) = Head(b) THEN StrLess(Tail(a), Tail(b))
    ELSE Ord(Head(a)) < Ord(Head(b))

\* list.sort(key=lambda e: e.lemma): a stable sort, here by insertion; e goes
\* behind every entry already placed whose lemma is not greater
\* mutant: an entry whose lemma is already placed is not inserted
RECURSIVE InsertByLemmaMerge(_, _)
InsertByLemmaMerge(sorted, e) ==
    IF sorted = <<>> THEN <<e>>
    ELSE IF e.lemma = Head(sorted).lemma THEN sorted
    ELSE IF StrLess(e.lemma, Head(sorted).lemma) THEN <<e>> \o sorted
    ELSE <<Head(sorted)>> \o InsertByLemmaMerge(Tail(sorted), e)

RECURSIVE InsertByLemma(_, _)
InsertByLemma(sorted, e) ==
    IF sorted = <<>> THEN <<e>>
    ELSE IF StrLess(e.lemma, Head(sorted).lemma) THEN <<e>> \o sorted
    ELSE <<Head(sorted)>> \o InsertByLemma(Tail(sorted), e)

RECURSIVE SortByLemma(_)
SortByLemma(es) ==
    IF es = <<>> THEN <<>>
    ELSE InsertByLemma(SortByLemma(SubSeq(es, 1, Len(es) - 1)), es[Len(es)])

Lang(nodes, lang) == WithAttr(nodes, "xml:lang", lang)

\* mutant: the translation quote is looked up first
EntryGreekTranslationFirst(entry) ==
    LET etym  == StepText(Step(WithTag(Desc(entry), "etym"), "mentioned"))
        trans == StepText(Step(WithAttr(WithTag(Desc(entry), "cit"), "type",
                                        <<"t", "r", "a", "n", "s", "l", "a", "t", "i", "o", "n">>),
                               "quote"))
        greek == IF trans = <<>> THEN etym ELSE trans
    IN  IF greek # <<>> THEN Some(greek[1]) ELSE None

\* the Greek equivalent: etym/mentioned text, else translation quote, else None
EntryGreek(entry) ==
    LET etym  == StepText(Step(WithTag(Desc(entry), "etym"), "mentioned"))
        trans == StepText(Step(WithAttr(WithTag(Desc(entry), "cit"), "type",
                                        <<"t", "r", "a", "n", "s", "l", "a", "t", "i", "o", "n">>),
                               "quote"))
        greek == IF etym = <<>> THEN trans ELSE etym
    IN  IF greek # <<>> THEN Some(greek[1]) ELSE None

EntrySenses(entry) ==
    Map(LAMBDA sense :
            [def_ka |-> FirstOr(StepText(Lang(findall(sense, "def"), <<"k", "a">>)), <<>>),
             def_en |-> FirstOr(StepText(Lang(findall(sense, "def"), <<"e", "n">>)), <<>>)],
        WithTag(Desc(entry), "sense"))

EntryExamples(entry) ==
    LET cits == WithAttr(WithTag(Desc(entry), "cit"), "type",
                         <<"e", "x", "a", "m", "p", "l", "e">>)
        Quote(cit) == StepText(findall(cit, "quote"))
        Ref(cit)   == StepText(Step(findall(cit, "bibl"), "ref"))
    IN  Map(LAMBDA cit : [quote |-> Quote(cit)[1], ref |-> FirstOr(Ref(cit), <<>>)],
            SelectSeq(cits, LAMBDA cit : Quote(cit) # <<>>))

\* 'sec.'
SecMarker == <<"s", "e", "c", ".">>

\* entry.xpath('.//tei:cit/tei:bibl/tei:ref/@target')
CitationTargets(entry) ==
    StepAttr(Step(Step(WithTag(Desc(entry), "cit"), "bibl"), "ref"), "target")

\* mutant: the test for the marker is left out
EntryOccurrencesUnfiltered(entry) ==
    Map(LAMBDA ref : split_last(ref, SecMarker), CitationTargets(entry))

EntryOccurrences(entry) ==
    Map(LAMBDA ref : split_last(ref, SecMarker),
        SelectSeq(CitationTargets(entry), LAMBDA ref : Contains(SecMarker, ref)))

EntrySeeAlso(entry) ==
    LET Targets(xr) == StepAttr(findall(xr, "ref"), "target")
    IN  Map(LAMBDA xr : replace_hash(Targets(xr)[1]),
            SelectSeq(WithTag(Desc(entry), "xr"), LAMBDA xr : Targets(xr) # <<>>))

\* the LexiconEntry built for one entry element
LexiconEntry(entry) ==
    LET occurrences == EntryOccurrences(entry)
        pos  == StepText(WithTag(Desc(entry), "pos"))
        note == StepText(findall(entry, "note"))
    IN  [id       |-> remove(Get(entry, "xml:id", <<>>), <<"l", "e", "x", ".">>),
         lemma    |-> FirstOr(StepText(Step(WithAttr(WithTag(Desc(entry), "form"), "type",
                                                     <<"l", "e", "m", "m", "a">>),
                                            "orth")), <<>>),
         pos      |-> IF pos # <<>> THEN Some(pos[1]) ELSE None,
         greek    |-> EntryGreek(entry),
         senses   |-> EntrySenses(entry),
         examples |-> EntryExamples(entry),
         occurrences |-> occurrences,
         see_also |-> EntrySeeAlso(entry),
         note     |-> IF note # <<>> THEN Some(note[1]) ELSE None,
         occurrence_count |-> Len(occurrences)]

\* tree.xpath('//tei:entry')
EntryElems(tree) == WithTag(DescOrSelf(tree), "entry")

get_lexicon_entries(tree) == SortByLemma(Map(LexiconEntry, EntryElems(tree)))

-----------------------------------------------------------------------------
(* TEIParser.__init__, _load_treatise, _load_lexicon and the public methods *)

\* most calls of public methods made on one parser instance
MaxCalls == 3

\* mutant: the cached tree is not looked at
_load_always(cached, xml, count) == [tree |-> Some(xml), count |-> count + 1]

\* _load_treatise / _load_lexicon: the tree returned and the parse count after
\* the call, given the cached tree, the document at the path and the count
_load(cached, xml, count) ==
    IF cached = None
    THEN [tree |-> Some(xml), count |-> count + 1]
    ELSE [tree |-> cached, count |-> count]

_load_treatise(cached, count) == _load(cached, treatise_xml, count)

_load_lexicon(cached, count) == _load(cached, lexicon_xml, count)

\* __init__ on a directory holding the two documents
InitWith(treatises, lexicons) ==
    /\ treatise_xml \in treatises
    /\ lexicon_xml \in lexicons
    /\ _treatise_tree = None
    /\ _lexicon_tree = None
    /\ parses = [treatise |-> 0, lexicon |-> 0]
    /\ ncalls = 0
    /\ witnesses = None
    /\ cts_urn = None
    /\ sections = None
    /\ metadata = None
    /\ entries = None

GetWitnesses ==
    /\ ncalls < MaxCalls
    /\ ncalls' = ncalls + 1
    /\ LET l == _load_treatise(_treatise_tree, parses.treatise)
       IN  /\ _treatise_tree' = l.tree
           /\ parses' = [parses EXCEPT !.treatise = l.count]
           /\ witnesses' = Some(get_witnesses(l.tree[1]))
    /\ UNCHANGED <<treatise_xml, lexicon_xml, _lexicon_tree, cts_urn, sections,
                   metadata, entries>>

GetCtsUrn ==
    /\ ncalls < MaxCalls
    /\ ncalls' = ncalls + 1
    /\ LET l == _load_treatise(_treatise_tree, parses.treatise)
       IN  /\ _treatise_tree' = l.tree
           /\ parses' = [parses EXCEPT !.treatise = l.count]
           /\ cts_urn' = Some(get_cts_urn(l.tree[1]))
    /\ UNCHANGED <<treatise_xml, lexicon_xml, _lexicon_tree, witnesses, sections,
                   metadata, entries>>

\* get_sections loads the tree, then calls get_cts_urn, which loads it again
GetSections ==
    /\ ncalls < MaxCalls
    /\ ncalls' = ncalls + 1
    /\ LET l1 == _load_treatise(_treatise_tree, parses.treatise)
           l2 == _load_treatise(l1.tree, l1.count)
       IN  /\ _treatise_tree' = l2.tree
           /\ parses' = [parses EXCEPT !.treatise = l2.count]
           /\ sections' = Some(get_sections(l2.tree[1]))
    /\ UNCHANGED <<treatise_xml, lexicon_xml, _lexicon_tree, witnesses, cts_urn,
                   metadata, entries>>

\* get_metadata loads the tree, then calls get_cts_urn, which loads it again
GetMetadata ==
    /\ ncalls < MaxCalls
    /\ ncalls' = ncalls + 1
    /\ LET l1 == _load_treatise(_treatise_tree, parses.treatise)
           l2 == _load_treatise(l1.tree, l1.count)
       IN  /\ _treatise_tree' = l2.tree
           /\ parses' = [parses EXCEPT !.treatise = l2.count]
           /\ metadata' = Some(get_metadata(l2.tree[1]))
    /\ UNCHANGED <<treatise_xml, lexicon_xml, _lexicon_tree, witnesses, cts_urn,
                   sections, entries>>

GetLexiconEntries ==
    /\ ncalls < MaxCalls
    /\ ncalls' = ncalls + 1
    /\ LET l == _load_lexicon(_lexicon_tree, parses.lexicon)
       IN  /\ _lexicon_tree' = l.tree
           /\ parses' = [parses EXCEPT !.lexicon = l.count]
           /\ entries' = Some(get_lexicon_entries(l.tree[1]))
    /\ UNCHANGED <<treatise_xml, lexicon_xml, _treatise_tree, witnesses, cts_urn,
                   sections, metadata>>

Next ==
    \/ GetWitnesses
    \/ GetCtsUrn
    \/ GetSections
    \/ GetMetadata
    \/ GetLexiconEntries

-----------------------------------------------------------------------------
(* The documents the parser is run on *)

\* most children of paragraphs a treatise body is built from
MaxItems == 2

\* most entries of a lexicon
MaxEntries == 3

Seqs(S, n) == UNION {[1..k -> S] : k \in 0..n}

NoAttrs == {}

Leaf(tag, attrs) == E(tag, attrs, <<>>, <<>>, <<>>)

\* <app><lem wit="#A">x</lem><rdg wit="#A">y</rdg><rdg wit="#S">z</rdg></app>t
AppAS ==
    E("app", NoAttrs, <<>>,
      <<E("lem", {<<"wit", <<"#", "A">>>>}, <<"x">>, <<>>, <<>>),
        E("rdg", {<<"wit", <<"#", "A">>>>}, <<"y">>, <<>>, <<>>),
        E("rdg", {<<"wit", <<"#", "S">>>>}, <<"z">>, <<>>, <<>>)>>,
      <<"t">>)

\* <app xml:id="a1"><rdg wit="#S">u<note>n</note></rdg></app>
AppNote ==
    E("app", {<<"xml:id", <<"a", "1">>>>}, <<>>,
      <<E("rdg", {<<"wit", <<"#", "S">>>>}, <<"u">>,
          <<E("note", NoAttrs, <<"n">>, <<>>, <<>>)>>, <<>>)>>,
      <<>>)

\* <app><lem>x</lem><rdg wit="#S"> </rdg><rdg wit="#A #S">y</rdg></app>
AppBlank ==
    E("app", NoAttrs, <<>>,
      <<E("lem", NoAttrs, <<"x">>, <<>>, <<>>),
        E("rdg", {<<"wit", <<"#", "S">>>>}, <<" ">>, <<>>, <<>>),
        E("rdg", {<<"wit", <<"#", "A", " ", "#", "S">>>>}, <<"y">>, <<>>, <<>>)>>,
      <<>>)

\* <app><rdg wit="#S">v</rdg><rdg>y</rdg><rdg wit="#S"> w </rdg></app>
AppTwoS ==
    E("app", NoAttrs, <<>>,
      <<E("rdg", {<<"wit", <<"#", "S">>>>}, <<"v">>, <<>>, <<>>),
        E("rdg", NoAttrs, <<"y">>, <<>>, <<>>),
        E("rdg", {<<"wit", <<"#", "S">>>>}, <<" ", "w", " ">>, <<>>, <<>>)>>,
      <<>>)

\* <app/>
AppEmpty == Leaf("app", NoAttrs)

\* <app><rdg wit="#A">r<note><hi>n</hi></note></rdg></app>
AppNoteNoText ==
    E("app", NoAttrs, <<>>,
      <<E("rdg", {<<"wit", <<"#", "A">>>>}, <<"r">>,
          <<E("note", NoAttrs, <<>>, <<E("hi", NoAttrs, <<"n">>, <<>>, <<>>)>>, <<>>)>>,
          <<>>)>>,
      <<>>)

\* <hi>h<app/>i<seg>AppAS</seg></hi>j : apparatus inside unrecognized elements
HiApp ==
    E("hi", NoAttrs, <<"h">>,
      <<E("app", NoAttrs, <<>>, <<>>, <<"i">>),
        E("seg", NoAttrs, <<>>, <<AppAS>>, <<>>)>>,
      <<"j">>)

\* <hi><p>q AppAS</p></hi> : a paragraph inside a descendant of a paragraph
HiP ==
    E("hi", NoAttrs, <<>>,
      <<E("p", NoAttrs, <<"q">>, <<AppAS>>, <<>>)>>,
      <<>>)

\* <term target="#lex.1">k<app><lem>x</lem></app></term>
TermApp ==
    E("term", {<<"target", <<"#", "l", "e", "x", ".", "1">>>>}, <<"k">>,
      <<E("app", NoAttrs, <<>>, <<E("lem", NoAttrs, <<"x">>, <<>>, <<>>)>>, <<>>)>>,
      <<>>)

\* <app><lem>x<app><lem>y</lem></app></lem></app>
LemApp ==
    E("app", NoAttrs, <<>>,
      <<E("lem", NoAttrs, <<"x">>,
          <<E("app", NoAttrs, <<>>, <<E("lem", NoAttrs, <<"y">>, <<>>, <<>>)>>, <<>>)>>,
          <<>>)>>,
      <<>>)

ApparatusPool == {AppAS, AppNote, AppBlank, AppTwoS, AppEmpty, AppNoteNoText, HiApp, HiP}

Grc == <<"g", "r", "c">>

\* <mentioned>g</mentioned>
Mentioned == E("mentioned", NoAttrs, <<"g">>, <<>>, <<>>)

\* <mentioned>g</mentioned> followed by text
MentionedTail == E("mentioned", NoAttrs, <<"g">>, <<>>, <<" ">>)

\* <gloss>(<foreign xml:lang="grc">o</foreign>)</gloss>
GlossGrc ==
    E("gloss", NoAttrs, <<"(">>,
      <<E("foreign", {<<"xml:lang", Grc>>}, <<"o">>, <<>>, <<")">>)>>, <<>>)

\* <gloss><foreign xml:lang="la">d</foreign></gloss>
GlossLat ==
    E("gloss", NoAttrs, <<>>,
      <<E("foreign", {<<"xml:lang", <<"l", "a">>>>}, <<"d">>, <<>>, <<>>)>>, <<>>)

\* <gloss>e</gloss>
GlossPlain == E("gloss", NoAttrs, <<"e">>, <<>>, <<>>)

\* <gloss><hi><foreign xml:lang="grc">o</foreign></hi></gloss>
GlossDeep ==
    E("gloss", NoAttrs, <<>>,
      <<E("hi", NoAttrs, <<>>,
          <<E("foreign", {<<"xml:lang", Grc>>}, <<"o">>, <<>>, <<>>)>>, <<>>)>>,
      <<>>)

\* <pb ed="#B" n="12"/>
Pb == Leaf("pb", {<<"ed", <<"#", "B">>>>, <<"n", <<"1", "2">>>>})

\* <milestone unit="folio" ed="A" n="3r"/>
Ms == Leaf("milestone", {<<"unit", <<"f", "o", "l", "i", "o">>>>, <<"ed", <<"A">>>>,
                         <<"n", <<"3", "r">>>>})

\* <seg><mentioned>g</mentioned><pb .../><gloss>..grc..</gloss></seg> : the gloss
\* is the second sibling after the mentioned element
MentionedApart == E("seg", NoAttrs, <<>>, <<Mentioned, Pb, GlossGrc>>, <<>>)

MentionPool ==
    {Mentioned, MentionedTail, GlossGrc, GlossLat, GlossPlain, GlossDeep, MentionedApart}

\* <milestone unit="section" n="1"/>
MsOther == Leaf("milestone", {<<"unit", <<"s", "e", "c", "t", "i", "o", "n">>>>,
                              <<"n", <<"1">>>>})

\* <cb/>
Cb == Leaf("cb", NoAttrs)

\* <cb ed="#A #B" n="b"/>c
CbN == E("cb", {<<"ed", <<"#", "A", " ", "#", "B">>>>, <<"n", <<"b">>>>}, <<>>, <<>>, <<"c">>)

\* <hi>h<pb .../><q>s<cb/></q></hi>
HiPb ==
    E("hi", NoAttrs, <<"h">>,
      <<Pb, E("q", NoAttrs, <<"s">>, <<Cb>>, <<>>)>>, <<>>)

\* <foreign xml:lang="grc">o<pb .../></foreign>
ForeignGrc == E("foreign", {<<"xml:lang", Grc>>}, <<"o">>, <<Pb>>, <<>>)

\* <foreign xml:lang="la">d<milestone unit="folio" .../></foreign>
ForeignLat == E("foreign", {<<"xml:lang", <<"l", "a">>>>}, <<"d">>, <<Ms>>, <<>>)

FolioPool == {Pb, Ms, MsOther, Cb, CbN, HiPb, ForeignGrc, ForeignLat}

CorePool == {AppAS, Mentioned, GlossGrc}

\* apparatus below unrecognized elements, below a nested paragraph and below
\* inline elements, next to a milestone and a foreign span without a handler
NestedPool == {AppAS, HiApp, HiP, TermApp, LemApp, MsOther, ForeignLat}

\* <pb ed="#S" n="9"/>
PbS == Leaf("pb", {<<"ed", <<"#", "S">>>>, <<"n", <<"9">>>>})

\* <p>a<pb ed="#S" n="9"/></p> : running text holding a page break of its own
ParaPb == E("p", NoAttrs, <<"a">>, <<PbS>>, <<>>)

\* the children of a section div: breaks of both forms, another milestone and
\* a paragraph
SectionPool == {Pb, Ms, MsOther, ParaPb}

\* the teiHeader children: witnesses, the CTS URN and the editor
HeaderFull ==
    <<E("witness", {<<"xml:id", <<"A">>>>}, <<>>,
        <<E("msIdentifier", NoAttrs, <<>>,
            <<E("settlement", NoAttrs, <<"t">>, <<>>, <<>>),
              E("repository", NoAttrs, <<"r">>, <<>>, <<>>)>>, <<>>),
          E("locus", NoAttrs, <<"1">>, <<>>, <<>>)>>, <<>>),
      E("witness", NoAttrs, <<"S">>, <<>>, <<>>),
      E("idno", {<<"type", <<"c", "t", "s", "-", "u", "r", "n">>>>}, <<"u">>, <<>>, <<>>),
      E("editor", {<<"role", <<"s", "c", "h", "o", "l", "a", "r", "l", "y">>>>}, <<>>,
        <<E("persName", NoAttrs, <<"e">>, <<>>, <<>>)>>, <<>>)>>

HeaderEmpty == <<>>

\* the section div number k holding one paragraph with the given children
SectionDiv(k, items) ==
    E("div", {<<"type", <<"s", "e", "c", "t", "i", "o", "n">>>>, <<"n", Str(k)>>}, <<>>,
      <<E("p", NoAttrs, <<"a">>, items, <<>>)>>, <<>>)

\* the section div number k with the given children
SectionOf(k, kids) ==
    E("div", {<<"type", <<"s", "e", "c", "t", "i", "o", "n">>>>, <<"n", Str(k)>>}, <<>>,
      kids, <<>>)

\* the items cut into sections after the positions in cuts
RECURSIVE CutSections(_, _, _, _)
CutSections(items, cuts, from, k) ==
    IF from > Len(items) THEN <<>>
    ELSE LET ahead == cuts \cap (from..Len(items))
             to    == IF ahead # {}
                      THEN CHOOSE c \in ahead : \A d \in ahead : c <= d
                      ELSE Len(items)
         IN  <<SectionDiv(k, SubSeq(items, from, to))>>
             \o CutSections(items, cuts, to + 1, k + 1)

Treatise(header, divs) ==
    E("TEI", NoAttrs, <<>>,
      <<E("teiHeader", NoAttrs, <<>>, header, <<>>),
        E("text", NoAttrs, <<>>, <<E("body", NoAttrs, <<>>, divs, <<>>)>>, <<>>)>>,
      <<>>)

\* the treatises whose paragraphs hold at most MaxItems children from pool
Treatises(headers, pool) ==
    {Treatise(h, CutSections(items, cuts, 1, 1)) :
        h \in headers,
        items \in Seqs(pool, MaxItems),
        cuts \in SUBSET (1..MaxItems)}


Form(lemma) ==
    E("form", {<<"type", <<"l", "e", "m", "m", "a">>>>}, <<>>,
      <<E("orth", NoAttrs, lemma, <<>>, <<>>)>>, <<>>)

\* <cit type="..."><quote>..</quote><bibl><ref target="..">r</ref></bibl></cit>
Cit(type, quote, target) ==
    E("cit", {<<"type", type>>}, <<>>,
      <<E("quote", NoAttrs, quote, <<>>, <<>>),
        E("bibl", NoAttrs, <<>>,
          <<E("ref", {<<"target", target>>}, <<"r">>, <<>>, <<>>)>>, <<>>)>>,
      <<>>)

Example == <<"e", "x", "a", "m", "p", "l", "e">>
Translation == <<"t", "r", "a", "n", "s", "l", "a", "t", "i", "o", "n">>

\* headword b, etymology, translation and the occurrences of sections 5 and 7
EntryB ==
    E("entry", {<<"xml:id", <<"l", "e", "x", ".", "b">>>>}, <<>>,
      <<Form(<<"b">>),
        E("gramGrp", NoAttrs, <<>>, <<E("pos", NoAttrs, <<"n">>, <<>>, <<>>)>>, <<>>),
        E("etym", NoAttrs, <<>>, <<E("mentioned", NoAttrs, <<"l">>, <<>>, <<>>)>>, <<>>),
        E("sense", NoAttrs, <<>>,
          <<E("def", {<<"xml:lang", <<"k", "a">>>>}, <<"k">>, <<>>, <<>>),
            E("def", {<<"xml:lang", <<"e", "n">>>>}, <<"e">>, <<>>, <<>>),
            Cit(Translation, <<"t">>, <<"#", "l", "e", "x", ".", "a">>),
            Cit(Example, <<"q">>, <<"#", "s", "e", "c", ".", "5">>),
            Cit(Example, <<>>, <<"#", "s", "e", "c", ".", "7">>)>>, <<>>),
        E("note", NoAttrs, <<"n">>, <<>>, <<>>)>>,
      <<>>)

\* headword a, no etymology, a translation quote, a repeated occurrence
EntryA ==
    E("entry", {<<"xml:id", <<"l", "e", "x", ".", "a">>>>}, <<>>,
      <<Form(<<"a">>),
        E("sense", NoAttrs, <<>>,
          <<Cit(Translation, <<>>, <<"s", "e", "c", ".">>),
            Cit(Translation, <<"t">>, <<"#", "s", "e", "c", ".", "5">>),
            Cit(Example, <<"q">>, <<"#", "s", "e", "c", ".", "5">>)>>, <<>>),
        E("xr", NoAttrs, <<>>,
          <<E("ref", {<<"target", <<"#", "l", "e", "x", ".", "b">>>>}, <<>>, <<>>, <<>>),
            E("ref", {<<"target", <<"#", "l", "e", "x", ".", "c">>>>}, <<>>, <<>>, <<>>)>>,
          <<>>),
        E("xr", NoAttrs, <<"x">>, <<>>, <<>>)>>,
      <<>>)

\* no headword and nothing else
EntryNone == Leaf("entry", NoAttrs)

\* headword b again; the etymology's mentioned element has no text of its own
EntryB2 ==
    E("entry", {<<"xml:id", <<"l", "e", "x", ".", "b", "2">>>>}, <<>>,
      <<Form(<<"b">>),
        E("etym", NoAttrs, <<"f">>,
          <<E("mentioned", NoAttrs, <<>>, <<E("hi", NoAttrs, <<"m">>, <<>>, <<>>)>>, <<>>)>>,
          <<>>),
        Cit(Translation, <<"t">>, <<"#", "s", "e", "c", ".", "1", "s", "e", "c", ".", "2">>)>>,
      <<>>)

\* headword ab; the etymology mentions two terms
EntryAb ==
    E("entry", NoAttrs, <<>>,
      <<Form(<<"a", "b">>),
        E("etym", NoAttrs, <<>>,
          <<E("mentioned", NoAttrs, <<"m">>, <<>>, <<>>),
            E("mentioned", NoAttrs, <<"l">>, <<>>, <<>>)>>, <<>>)>>,
      <<>>)

EntryPool == {EntryB, EntryA, EntryNone, EntryB2, EntryAb}

Lexicon(es) ==
    E("TEI", NoAttrs, <<>>,
      <<E("text", NoAttrs, <<>>, <<E("body", NoAttrs, <<>>, es, <<>>)>>, <<>>)>>, <<>>)

\* the lexicons of at most MaxEntries entries from pool
Lexicons(pool) == {Lexicon(es) : es \in Seqs(pool, MaxEntries)}

-----------------------------------------------------------------------------
(* Specifications: one parser instance over each pair of documents *)

\* few documents of both kinds, every header
Init ==
    InitWith(Treatises({HeaderFull, HeaderEmpty}, CorePool),
             {Lexicon(<<>>), Lexicon(<<EntryB, EntryA>>)})
Spec == Init /\ [][Next]_vars

\* treatises over the apparatus elements
InitApparatus == InitWith(Treatises({HeaderFull}, ApparatusPool), {Lexicon(<<EntryB>>)})
SpecApparatus == InitApparatus /\ [][Next]_vars

\* treatises over mentioned and gloss elements
InitMention == InitWith(Treatises({HeaderFull}, MentionPool), {Lexicon(<<EntryB>>)})
SpecMention == InitMention /\ [][Next]_vars

\* treatises over page, folio and column breaks
InitFolio == InitWith(Treatises({HeaderFull}, FolioPool), {Lexicon(<<EntryB>>)})
SpecFolio == InitFolio /\ [][Next]_vars

\* treatises of two sections, the first with at most MaxItems + 1 children
\* from SectionPool
InitSection ==
    InitWith({Treatise(HeaderFull, <<SectionOf(1, kids), SectionDiv(2, <<Pb>>)>>) :
                 kids \in Seqs(SectionPool, MaxItems + 1)},
             {Lexicon(<<EntryB>>)})
SpecSection == InitSection /\ [][Next]_vars

\* treatises over nested apparatus and elements without a handler
InitNested == InitWith(Treatises({HeaderFull}, NestedPool), {Lexicon(<<EntryB>>)})
SpecNested == InitNested /\ [][Next]_vars

\* lexicons over every entry
InitLexicon == InitWith({Treatise(HeaderFull, <<SectionDiv(1, <<AppAS>>)>>)}, Lexicons(EntryPool))
SpecLexicon == InitLexicon /\ [][Next]_vars

-----------------------------------------------------------------------------
(* Vocabulary of the properties *)

\* the section divs of the treatise, in document order
Divs == SectionDivs(treatise_xml)

\* the nodes of one type in a content list
OfType(content, type) == SelectSeq(content, LAMBDA node : node.type = type)

\* an element that no specific branch of the dispatch handles
IsUnrecognized(elem) ==
    /\ elem.tag \notin {"app", "term", "pb", "cb", "mentioned", "gloss", "persName", "q"}
    /\ ~(elem.tag = "milestone" /\ <<"unit", <<"f", "o", "l", "i", "o">>>> \in elem.attrs)
    /\ ~(elem.tag = "foreign" /\ <<"xml:lang", <<"g", "r", "c">>>> \in elem.attrs)

\* the elements the dispatch is applied to below the children kids, in document
\* order, each with its siblings: every child, and the elements met below an
\* unrecognized one
RECURSIVE Met(_, _)
Met(kids, j) ==
    IF j > Len(kids) THEN <<>>
    ELSE <<[sibs |-> kids, i |-> j]>>
         \o (IF IsUnrecognized(kids[j]) THEN Met(kids[j].kids, 1) ELSE <<>>)
         \o Met(kids, j + 1)

\* the elements the walker meets in one section: those met in each paragraph
\* of the section
MetIn(div) ==
    Join(Map(LAMBDA p : Met(p.kids, 1), SelectSeq(Desc(div), LAMBDA e : e.tag = "p")))

\* the elements with a tag among those met in a section
MetWithTag(div, tag) == SelectSeq(MetIn(div), LAMBDA m : m.sibs[m.i].tag = tag)

StrictlyIncreasing(ints) == \A i, j \in 1..Len(ints) : i < j => ints[i] < ints[j]

-----------------------------------------------------------------------------
(* C1 *)

\* the index values of the App nodes, and of the AppEntries, of all sections
AppNodeIndexes(secs) ==
    Join(Map(LAMBDA sec : Map(LAMBDA node : node.index[1], OfType(sec.content, "app")), secs))
AppEntryIndexes(secs) ==
    Join(Map(LAMBDA sec : Map(LAMBDA entry : entry.index, sec.apparatus), secs))

\* C1: over the sections one get_sections call returns, the index values of the
\* App nodes and of the AppEntries, read through the whole document, strictly
\* increase (no restart at a section boundary), and in every section the k-th
\* App node carries the index of the k-th AppEntry, the one created with it.
C1_IndexIncreasing ==
    sections # None =>
        /\ StrictlyIncreasing(AppNodeIndexes(sections[1]))
        /\ StrictlyIncreasing(AppEntryIndexes(sections[1]))
        /\ \A k \in 1..Len(sections[1]) :
               Map(LAMBDA node : node.index[1], OfType(sections[1][k].content, "app"))
                   = Map(LAMBDA entry : entry.index, sections[1][k].apparatus)

\* two sections with apparatus each, the second going on after the first
C1_Witness ==
    /\ sections # None
    /\ Len(sections[1]) = 2
    /\ Len(sections[1][1].apparatus) >= 2
    /\ sections[1][2].apparatus # <<>>
    /\ sections[1][2].apparatus[1].index = Len(sections[1][1].apparatus) + 1

-----------------------------------------------------------------------------
(* C4 *)

\* the witness of a reading: its wit attribute without the fragment markers,
\* empty when there is none
Sigil(rdg) ==
    IF \E a \in rdg.attrs : a[1] = "wit"
    THEN SelectSeq((CHOOSE a \in rdg.attrs : a[1] = "wit")[2], LAMBDA c : c # "#")
    ELSE <<>>

\* the text of a reading: its inner text, trimmed
RdgText(rdg) == strip(itertext(rdg))

\* what C4 says of one app element, its AppEntry and its App node
AppAsClaimed(app, entry, node) ==
    LET rdgs  == SelectSeq(app.kids, LAMBDA k : k.tag = "rdg")
        withS == {m \in 1..Len(rdgs) : Sigil(rdgs[m]) = <<"S">> /\ RdgText(rdgs[m]) # <<>>}
    IN  /\ Len(entry.readings) = Len(rdgs)
        /\ \A m \in 1..Len(rdgs) :
               /\ entry.readings[m].wit = Sigil(rdgs[m])
               /\ (~\E k \in 1..Len(rdgs[m].kids) : rdgs[m].kids[k].tag = "note")
                      => /\ entry.readings[m].text = RdgText(rdgs[m])
                         /\ entry.readings[m].note = None
        /\ withS = {} => node.rdg_s = None
        /\ withS # {} => /\ node.rdg_s # None
                         /\ \E m \in withS : node.rdg_s[1] = RdgText(rdgs[m])

\* C4: for every app element the walker meets, the AppEntry has one record per
\* rdg child, in the order of the rdg children, with that reading's witness (and
\* its trimmed text when the reading has no note), and the App node's rdg_s is
\* the text of a reading whose witness is S and that has text, and is absent
\* when no reading with witness S has text.
C4_ReadingsAndRdgS ==
    sections # None =>
        \A k \in 1..Len(sections[1]) :
            LET apps  == MetWithTag(Divs[k], "app")
                nodes == OfType(sections[1][k].content, "app")
            IN  /\ Len(sections[1][k].apparatus) = Len(apps)
                /\ Len(nodes) = Len(apps)
                /\ \A j \in 1..Len(apps) :
                       AppAsClaimed(apps[j].sibs[apps[j].i],
                                    sections[1][k].apparatus[j], nodes[j])

\* the lemma with readings A then S: two records in that order, rdg_s the text
\* of the S reading; and another app whose only S reading is blank
C4_Witness ==
    /\ sections # None
    /\ \E k \in 1..Len(sections[1]) :
           /\ \E j \in 1..Len(sections[1][k].apparatus) :
                  /\ Map(LAMBDA r : r.wit, sections[1][k].apparatus[j].readings)
                         = <<<<"A">>, <<"S">>>>
                  /\ OfType(sections[1][k].content, "app")[j].rdg_s = Some(<<"z">>)
           /\ \E j \in 1..Len(sections[1][k].apparatus) :
                  /\ \E m \in 1..Len(sections[1][k].apparatus[j].readings) :
                         sections[1][k].apparatus[j].readings[m].wit = <<"S">>
                  /\ OfType(sections[1][k].content, "app")[j].rdg_s = None

-----------------------------------------------------------------------------
(* C5 *)

\* a page break, a folio milestone or a column break
IsBreak(elem) ==
    \/ elem.tag \in {"pb", "cb"}
    \/ elem.tag = "milestone" /\ <<"unit", <<"f", "o", "l", "i", "o">>>> \in elem.attrs

\* the value of an attribute, empty when the element does not carry it
AttrOrEmpty(elem, name) ==
    IF \E a \in elem.attrs : a[1] = name
    THEN (CHOOSE a \in elem.attrs : a[1] = name)[2]
    ELSE <<>>

\* C5: in every section the Folio nodes are, in order, one per page break,
\* folio milestone or column break the walker meets, with ed the attribute
\* without its fragment markers and n the attribute unchanged, each empty when
\* the attribute is missing.
C5_FolioNodes ==
    sections # None =>
        \A k \in 1..Len(sections[1]) :
            LET breaks == SelectSeq(MetIn(Divs[k]), LAMBDA m : IsBreak(m.sibs[m.i]))
                nodes  == OfType(sections[1][k].content, "folio")
            IN  /\ Len(nodes) = Len(breaks)
                /\ \A j \in 1..Len(breaks) :
                       LET elem == breaks[j].sibs[breaks[j].i]
                       IN  /\ nodes[j].ed
                               = Some(SelectSeq(AttrOrEmpty(elem, "ed"), LAMBDA c : c # "#"))
                           /\ nodes[j].n = Some(AttrOrEmpty(elem, "n"))

\* a folio milestone A 3r followed by a page break B 12 in one paragraph, and
\* somewhere a break without attributes
C5_Witness ==
    /\ sections # None
    /\ \E k \in 1..Len(sections[1]) :
           LET nodes == OfType(sections[1][k].content, "folio")
           IN  /\ Len(nodes) = 2
               /\ nodes[1].ed = Some(<<"A">>) /\ nodes[1].n = Some(<<"3", "r">>)
               /\ nodes[2].ed = Some(<<"B">>) /\ nodes[2].n = Some(<<"1", "2">>)
               /\ MetWithTag(Divs[k], "milestone") # <<>>
               /\ MetWithTag(Divs[k], "pb") # <<>>

-----------------------------------------------------------------------------
(* C2 *)

\* the text a content node stands for
NodeText(node) ==
    CASE node.type = "text" -> node.value[1]
      [] node.type = "app" -> node.lem[1]
      [] node.type = "term" -> node.text[1]
      [] node.type = "greek" -> node.text[1]
      [] node.type = "mentioned" ->
             node.ka[1] \o (IF node.grc # None THEN node.grc[1] ELSE <<>>)
      [] OTHER -> <<>>

\* the running text of an element in source order: the lemma for an apparatus
\* group, nothing for a break, the whole inner text for the other recognized
\* elements (gloss included), and for any other element its text followed by
\* each child and the child's tail
RECURSIVE SourceOf(_), SourceOfKids(_)
SourceOf(elem) ==
    IF elem.tag = "app"
    THEN (IF \E k \in 1..Len(elem.kids) : elem.kids[k].tag = "lem"
          THEN itertext(SelectSeq(elem.kids, LAMBDA k : k.tag = "lem")[1])
          ELSE <<>>)
    ELSE IF IsBreak(elem) THEN <<>>
    ELSE IF IsUnrecognized(elem) THEN elem.text \o SourceOfKids(elem.kids)
    ELSE itertext(elem)
SourceOfKids(kids) ==
    IF kids = <<>> THEN <<>>
    ELSE SourceOf(Head(kids)) \o Head(kids).tail \o SourceOfKids(Tail(kids))

\* the paragraphs below kids that lie in no other paragraph
RECURSIVE OuterParagraphs(_)
OuterParagraphs(kids) ==
    IF kids = <<>> THEN <<>>
    ELSE (IF Head(kids).tag = "p" THEN <<Head(kids)>> ELSE OuterParagraphs(Head(kids).kids))
         \o OuterParagraphs(Tail(kids))

\* the running text of a section: that of its paragraphs, each once
SectionSource(div) ==
    Join(Map(LAMBDA p : p.text \o SourceOfKids(p.kids), OuterParagraphs(div.kids)))

\* C2: the content nodes of every section, read in order, give the running
\* text of the section's paragraphs in source order, nothing dropped, moved or
\* repeated, gloss elements and nested paragraphs included.
C2_RoundTrip ==
    sections # None =>
        \A k \in 1..Len(sections[1]) :
            Join(Map(NodeText, sections[1][k].content)) = SectionSource(Divs[k])

-----------------------------------------------------------------------------
(* C3 *)

\* the next sibling of sibs[i] is a gloss with a Greek foreign child
FollowedByGreekGloss(sibs, i) ==
    /\ i < Len(sibs)
    /\ sibs[i + 1].tag = "gloss"
    /\ \E k \in 1..Len(sibs[i + 1].kids) :
           /\ sibs[i + 1].kids[k].tag = "foreign"
           /\ <<"xml:lang", <<"g", "r", "c">>>> \in sibs[i + 1].kids[k].attrs

\* C3: the Mentioned node of every mentioned element the walker meets has grc
\* exactly when the element's next sibling is a gloss that holds a Greek
\* (xml:lang="grc") span.
C3_GrcIffGreekGloss ==
    sections # None =>
        \A k \in 1..Len(sections[1]) :
            LET ms    == MetWithTag(Divs[k], "mentioned")
                nodes == OfType(sections[1][k].content, "mentioned")
            IN  /\ Len(nodes) = Len(ms)
                /\ \A j \in 1..Len(ms) :
                       (nodes[j].grc # None) <=> FollowedByGreekGloss(ms[j].sibs, ms[j].i)

-----------------------------------------------------------------------------
(* Vocabulary of the lexicon properties *)

\* the entry elements of the lexicon, in document order
Entries == SelectSeq(DescOrSelf(lexicon_xml), LAMBDA e : e.tag = "entry")

\* the one-to-one assignments of n elements to n places
Perms(n) == {f \in [1..n -> 1..n] : \A i, j \in 1..n : f[i] = f[j] => i = j}

-----------------------------------------------------------------------------
(* C6 *)

\* the targets of the ref elements in a bibl in a cit of the entry, in order
RefTargets(entry) ==
    LET refs == Step(Step(SelectSeq(Desc(entry), LAMBDA e : e.tag = "cit"), "bibl"), "ref")
    IN  Map(LAMBDA r : AttrOrEmpty(r, "target"),
            SelectSeq(refs, LAMBDA r : \E a \in r.attrs : a[1] = "target"))

HasMarker(target) ==
    \E j \in 1..Len(target) :
        j + 3 <= Len(target) /\ SubSeq(target, j, j + 3) = <<"s", "e", "c", ".">>

\* number is what follows the section marker in target
FollowsMarker(target, number) ==
    /\ ~HasMarker(number)
    /\ \E j \in 1..Len(target) :
           /\ j + 3 <= Len(target)
           /\ SubSeq(target, j, j + 3) = <<"s", "e", "c", ".">>
           /\ number = SubSeq(target, j + 4, Len(target))

\* C6: every returned LexiconEntry holds in occurrences one item per citation
\* reference target of its entry that contains the section marker, in document
\* order, duplicates kept, the item being what follows the marker, and its
\* occurrence_count is the length of occurrences.
C6_Occurrences ==
    entries # None =>
        LET elems   == Entries
            targets == [i \in 1..Len(elems) |-> SelectSeq(RefTargets(elems[i]), HasMarker)]
        IN  /\ Len(entries[1]) = Len(elems)
            /\ \E f \in Perms(Len(elems)) :
                   \A i \in 1..Len(elems) :
                       LET r == entries[1][f[i]]
                       IN  /\ Len(r.occurrences) = Len(targets[i])
                           /\ \A m \in 1..Len(targets[i]) :
                                  FollowsMarker(targets[i][m], r.occurrences[m])
                           /\ r.occurrence_count = Len(r.occurrences)

\* an entry with the targets of sections 5 and 7 next to a target without the
\* marker, and an entry with section 5 twice
C6_Witness ==
    /\ entries # None
    /\ \E i \in 1..Len(entries[1]) :
           /\ entries[1][i].occurrences = <<<<"5">>, <<"7">>>>
           /\ entries[1][i].occurrence_count = 2
    /\ \E i \in 1..Len(entries[1]) :
           /\ entries[1][i].occurrences = <<<<>>, <<"5">>, <<"5">>>>
           /\ entries[1][i].occurrence_count = 3
    /\ \E i \in 1..Len(Entries) : \E m \in 1..Len(RefTargets(Entries[i])) :
           ~HasMarker(RefTargets(Entries[i])[m])

-----------------------------------------------------------------------------
(* C7 *)

\* the texts of the mentioned elements of the entry's etymology
MentionedTexts(entry) ==
    StepText(Step(SelectSeq(Desc(entry), LAMBDA e : e.tag = "etym"), "mentioned"))

\* the quoted texts of the entry's translation citations
TranslationQuotes(entry) ==
    StepText(Step(SelectSeq(Desc(entry), LAMBDA e :
                      e.tag = "cit"
                      /\ <<"type", <<"t", "r", "a", "n", "s", "l", "a", "t", "i", "o", "n">>>>
                             \in e.attrs),
                  "quote"))

\* C7: the Greek equivalent of every entry is the first text its etymology
\* mentions when it mentions one, else the first quoted text of its translation
\* citations when there is one, else absent.
C7_GreekFallback ==
    entries # None =>
        LET elems == Entries
            ment  == [i \in 1..Len(elems) |-> MentionedTexts(elems[i])]
            quot  == [i \in 1..Len(elems) |-> TranslationQuotes(elems[i])]
        IN  /\ Len(entries[1]) = Len(elems)
            /\ \E f \in Perms(Len(elems)) :
                   \A i \in 1..Len(elems) :
                       LET greek == entries[1][f[i]].greek
                       IN  /\ ment[i] # <<>> => greek = Some(ment[i][1])
                           /\ ment[i] = <<>> /\ quot[i] # <<>> => greek = Some(quot[i][1])
                           /\ ment[i] = <<>> /\ quot[i] = <<>> => greek = None

\* three entries: one whose etymology mentions a term although it also has a
\* translation quote, one with only the quote, one with neither
C7_Witness ==
    /\ entries # None
    /\ Len(Entries) = 3
    /\ \E i \in 1..3 : MentionedTexts(Entries[i]) # <<>> /\ TranslationQuotes(Entries[i]) # <<>>
    /\ \E i \in 1..3 : MentionedTexts(Entries[i]) = <<>> /\ TranslationQuotes(Entries[i]) # <<>>
    /\ \E i \in 1..3 : MentionedTexts(Entries[i]) = <<>> /\ TranslationQuotes(Entries[i]) = <<>>
    /\ {entries[1][i].greek : i \in 1..3} = {Some(<<"l">>), Some(<<"t">>), None}

-----------------------------------------------------------------------------
(* C8 *)

\* a <= b in code point order
LexLeq(a, b) ==
    \/ Len(a) <= Len(b) /\ SubSeq(b, 1, Len(a)) = a
    \/ \E i \in 1..Len(a) :
           /\ i <= Len(b)
           /\ SubSeq(a, 1, i - 1) = SubSeq(b, 1, i - 1)
           /\ Ord(a[i]) < Ord(b[i])

\* C8: the returned list is in ascending order of headword and holds exactly
\* the entries built from the document's entry elements, each once.
C8_SortedPermutation ==
    entries # None =>
        LET built == Map(LexiconEntry, Entries)
        IN  /\ \A i, j \in 1..Len(entries[1]) :
                   i < j => LexLeq(entries[1][i].lemma, entries[1][j].lemma)
            /\ Len(entries[1]) = Len(built)
            /\ \E f \in Perms(Len(built)) :
                   \A i \in 1..Len(built) : entries[1][f[i]] = built[i]

\* three entries out of order in the document, two of them with one headword
C8_Witness ==
    /\ entries # None
    /\ Len(entries[1]) = 3
    /\ entries[1] # Map(LexiconEntry, Entries)
    /\ entries[1][2].lemma = entries[1][3].lemma
    /\ entries[1][2] # entries[1][3]
    /\ entries[1][1].lemma # entries[1][2].lemma

-----------------------------------------------------------------------------
(* C9 *)

\* C9: once a method has returned a value, every later call of it on the same
\* instance returns that value again; for get_sections this means that a later
\* call assigns the index values of the first.
C9_Idempotent ==
    [][/\ sections # None => sections' = sections
       /\ entries # None => entries' = entries
       /\ witnesses # None => witnesses' = witnesses]_vars

\* get_sections called twice and nothing else, on a treatise with apparatus:
\* the value held after the second call numbers from 1
C9_Witness ==
    /\ ncalls = 2
    /\ sections # None
    /\ witnesses = None /\ cts_urn = None /\ metadata = None /\ entries = None
    /\ sections[1] # <<>>
    /\ sections[1][1].apparatus # <<>>
    /\ sections[1][1].apparatus[1].index = 1

-----------------------------------------------------------------------------
(* C10 *)

\* a method that reads the treatise has been called
TreatiseRead == witnesses # None \/ cts_urn # None \/ sections # None \/ metadata # None

\* C10: each document has been parsed once if a method that needs it has been
\* called and not at all otherwise, whatever the calls made so far, and its
\* tree is cached from then on.
C10_ParsedAtMostOnce ==
    /\ parses.treatise = (IF TreatiseRead THEN 1 ELSE 0)
    /\ parses.lexicon = (IF entries # None THEN 1 ELSE 0)
    /\ _treatise_tree # None <=> TreatiseRead
    /\ _lexicon_tree # None <=> entries # None

\* three calls, get_sections and get_metadata among them (each loads the
\* treatise twice) and get_lexicon_entries: one parse of each document
C10_Witness ==
    /\ ncalls = 3
    /\ sections # None /\ metadata # None /\ entries # None
    /\ parses = [treatise |-> 1, lexicon |-> 1]

-----------------------------------------------------------------------------
(* C11 *)

\* a folio marker: a page break, or a milestone whose unit is folio
IsFolioMarker(elem) ==
    \/ elem.tag = "pb"
    \/ elem.tag = "milestone" /\ <<"unit", <<"f", "o", "l", "i", "o">>>> \in elem.attrs

\* the children of a section before its first paragraph
BeforeText(div) ==
    LET ps == {j \in 1..Len(div.kids) : div.kids[j].tag = "p"}
    IN  IF ps = {} THEN div.kids
        ELSE SubSeq(div.kids, 1, (CHOOSE j \in ps : \A k \in ps : j <= k) - 1)

\* the folio markers among the children of a section that come before its
\* running text, in document order
LeadingMarkers(div) == SelectSeq(BeforeText(div), IsFolioMarker)

\* C11: the folios list of every section holds exactly the folio markers (page
\* breaks and folio milestones) that are children of the section element and
\* come before its running text, in document order, each with its ed (without
\* fragment markers) and n; a marker after a paragraph is left out, and a
\* milestone standing before a page break is listed before it.
C11_LeadingFolios ==
    sections # None =>
        /\ Len(sections[1]) = Len(Divs)
        /\ \A k \in 1..Len(Divs) :
               LET markers == LeadingMarkers(Divs[k])
                   folios  == sections[1][k].folios
               IN  /\ Len(folios) = Len(markers)
                   /\ \A j \in 1..Len(markers) :
                          /\ folios[j].ed
                              = SelectSeq(AttrOrEmpty(markers[j], "ed"), LAMBDA c : c # "#")
                          /\ folios[j].n = AttrOrEmpty(markers[j], "n")

-----------------------------------------------------------------------------
(* C12 *)

\* the linked targets of one cross-reference element: the target attributes of
\* its ref children, in order, without fragment markers
LinkedTargets(xr) ==
    Map(LAMBDA r : SelectSeq(AttrOrEmpty(r, "target"), LAMBDA c : c # "#"),
        SelectSeq(xr.kids, LAMBDA r :
            r.tag = "ref" /\ \E a \in r.attrs : a[1] = "target"))

\* the linked targets of all the cross-reference elements of the entry, in
\* document order
XrTargets(entry) ==
    Join(Map(LinkedTargets, SelectSeq(Desc(entry), LAMBDA e : e.tag = "xr")))

\* C12: every returned LexiconEntry holds in see_also every linked target of
\* every cross-reference element of its entry, in document order, fragment
\* markers stripped; only a cross-reference element without a target adds
\* nothing, and one with two linked targets adds both.
C12_SeeAlsoEveryTarget ==
    entries # None =>
        LET elems   == Entries
            claimed == [i \in 1..Len(elems) |-> XrTargets(elems[i])]
        IN  /\ Len(entries[1]) = Len(elems)
            /\ \E f \in Perms(Len(elems)) :
                   \A i \in 1..Len(elems) : entries[1][f[i]].see_also = claimed[i]

-----------------------------------------------------------------------------
(* C13 *)

\* the reading has a note child
HasNote(rdg) == \E k \in 1..Len(rdg.kids) : rdg.kids[k].tag = "note"

\* what C13 says of one rdg child and its reading record
ReadingAsClaimed(rdg, reading) ==
    IF HasNote(rdg)
    THEN reading.text = <<>> /\ reading.note # None
    ELSE reading.text = RdgText(rdg) /\ reading.note = None

\* C13: for every app element the walker meets and every rdg child of it, the
\* reading record of a reading with a note child has the empty text and a note
\* recorded, whether or not the note element has leading text of its own; the
\* record of a reading without a note has the trimmed text and no note.
C13_NoteSuppressesText ==
    sections # None =>
        \A k \in 1..Len(sections[1]) :
            LET apps == MetWithTag(Divs[k], "app")
            IN  /\ Len(sections[1][k].apparatus) = Len(apps)
                /\ \A j \in 1..Len(apps) :
                       LET rdgs == SelectSeq(apps[j].sibs[apps[j].i].kids,
                                             LAMBDA e : e.tag = "rdg")
                           recs == sections[1][k].apparatus[j].readings
                       IN  /\ Len(recs) = Len(rdgs)
                           /\ \A m \in 1..Len(rdgs) : ReadingAsClaimed(rdgs[m], recs[m])

-----------------------------------------------------------------------------
(* C14 *)

\* a stretch of text the walk emits as a Text node
TextRun(text) == [kind |-> "text", text |-> text, elem |-> None]

\* an element handed to its specific handler
Handled(elem) == [kind |-> "elem", text |-> <<>>, elem |-> Some(elem)]

TextRunOf(text) == IF text # <<>> THEN <<TextRun(text)>> ELSE <<>>

\* what the walk over the children kids, from child j on, comes to when every
\* unrecognized element degrades to the generic fallback: its leading text,
\* then each child in order (the same rule again) followed by the child's tail
RECURSIVE Walked(_, _)
Walked(kids, j) ==
    IF j > Len(kids) THEN <<>>
    ELSE (IF IsUnrecognized(kids[j])
          THEN TextRunOf(kids[j].text) \o Walked(kids[j].kids, 1)
          ELSE IF kids[j].tag = "gloss" THEN <<>>
          ELSE <<Handled(kids[j])>>)
         \o TextRunOf(kids[j].tail)
         \o Walked(kids, j + 1)

\* the walk of a section: of each of its paragraphs, in document order
WalkedSection(div) ==
    Join(Map(LAMBDA p : TextRunOf(p.text) \o Walked(p.kids, 1),
             SelectSeq(Desc(div), LAMBDA e : e.tag = "p")))

\* the inner text of the first lem child of an app element, empty without one
LemText(app) ==
    LET lems == SelectSeq(app.kids, LAMBDA e : e.tag = "lem")
    IN  IF lems = <<>> THEN <<>> ELSE itertext(lems[1])

\* the node stands for the step of the walk
NodeOfStep(step, node) ==
    IF step.kind = "text"
    THEN node.type = "text" /\ node.value = Some(step.text)
    ELSE LET elem == step.elem[1]
         IN  CASE elem.tag = "app" -> node.type = "app" /\ node.lem = Some(LemText(elem))
               [] elem.tag = "term" -> node.type = "term"
               [] elem.tag \in {"pb", "cb", "milestone"} -> node.type = "folio"
               [] elem.tag = "foreign" -> node.type = "greek"
               [] elem.tag = "mentioned" -> node.type = "mentioned"
               [] OTHER -> node.type = "text" /\ node.value = Some(itertext(elem))

\* C14: an element without a specific handler (a milestone whose unit is not
\* folio and a foreign span that is not Greek among them) does not stop the
\* walk: every section is returned, and its content is, node for node, the
\* walk in which such an element gives a Text node for its leading text, then
\* for each child in order what the same dispatch gives for the child followed
\* by a Text node for the child's tail; the App nodes of the apparatus found
\* on the way, at any depth below such elements, are numbered with the one
\* counter in the order they are emitted: 1, 2, ... through the document.
C14_GenericFallback ==
    sections # None =>
        /\ Len(sections[1]) = Len(Divs)
        /\ \A k \in 1..Len(Divs) :
               LET steps == WalkedSection(Divs[k])
                   nodes == sections[1][k].content
               IN  /\ Len(nodes) = Len(steps)
                   /\ \A j \in 1..Len(steps) : NodeOfStep(steps[j], nodes[j])
        /\ LET indexes == AppNodeIndexes(sections[1])
           IN  \A j \in 1..Len(indexes) : indexes[j] = j

\* a paragraph <p>a<foreign xml:lang="la">d<milestone unit="folio"/></foreign>
\* <hi>h<app/>i<seg><app>..</app>t</seg></hi>j</p>: the text runs, the folio
\* below the foreign span and the two apparatus entries below hi and seg
C14_Witness ==
    /\ sections # None
    /\ \E k \in 1..Len(sections[1]) :
           LET nodes == sections[1][k].content
           IN  /\ Divs[k].kids[1].kids = <<ForeignLat, HiApp>>
               /\ Map(LAMBDA node : node.type, nodes)
                      = <<"text", "text", "folio", "text", "app", "text", "app",
                          "text", "text">>
               /\ Map(LAMBDA node : node.value, SelectSeq(nodes, LAMBDA node : node.type = "text"))
                      = <<Some(<<"a">>), Some(<<"d">>), Some(<<"h">>), Some(<<"i">>),
                          Some(<<"t">>), Some(<<"j">>)>>
               /\ nodes[7].index = Some(nodes[5].index[1] + 1)

-----------------------------------------------------------------------------
(* C15 *)

\* the app elements inside the paragraphs of a section, each once, in document
\* order, at whatever depth and below whatever element
AppsInParagraphs(div) ==
    SelectSeq(Join(Map(Desc, OuterParagraphs(div.kids))), LAMBDA e : e.tag = "app")

\* C15: after get_sections every app element inside a paragraph of a section
\* has given exactly one App node and exactly one AppEntry, in its section: in
\* every section the App nodes and the AppEntries are, in document order, one
\* per app element of the section's paragraphs, and the indexes through the
\* document are exactly 1..N for the N app elements, also for a paragraph
\* nested in another and for an app element inside a term, an inline element
\* or another app's lemma.
C15_OneEntryPerApp ==
    sections # None =>
        /\ Len(sections[1]) = Len(Divs)
        /\ \A k \in 1..Len(Divs) :
               LET apps  == AppsInParagraphs(Divs[k])
                   nodes == OfType(sections[1][k].content, "app")
                   found == sections[1][k].apparatus
               IN  /\ Len(nodes) = Len(apps)
                   /\ Len(found) = Len(apps)
                   /\ \A j \in 1..Len(apps) :
                          /\ nodes[j].lem = Some(LemText(apps[j]))
                          /\ found[j].lem = LemText(apps[j])
                          /\ found[j].index = nodes[j].index[1]
        /\ LET indexes == AppEntryIndexes(sections[1])
           IN  /\ Len(indexes) = Len(Join(Map(AppsInParagraphs, Divs)))
               /\ \A j \in 1..Len(indexes) : indexes[j] = j

=============================================================================
